---- MODULE Spec2Model ----
(***************************************************************************)
(* bntmx: the Tiled map compiler of butano-tiled (src/bntmx.py).           *)
(*                                                                         *)
(* process() walks a batch of maps.  For each map it resets the id counter *)
(* of MapObject, builds a TMXConverter (which loads the object layers into *)
(* per-layer class -> objects dictionaries), skips the map when its        *)
(* outputs are newer than its inputs, and otherwise writes the background  *)
(* image, its descriptor, the C++ header and the C++ source.  The source   *)
(* holds the flattened _objects table, the _objects_spans table, the       *)
(* _tiles table and the accessors that read them.                          *)
(***************************************************************************)
EXTENDS Integers, Sequences, FiniteSets, TLC

\* ------------------------------------------------------------------ bounds
MaxLayers == 2      \* object layers of a map
MaxObjs == 3        \* objects of a map, all layers together
MaxWidth == 2       \* map width in tiles
MaxHeight == 2      \* map height in tiles
MaxTiles == 4       \* tile references of a tile layer
MaxGraphics == 3    \* graphics layers of a map
NMaps == 2          \* maps of a batch
MaxRuns == 2        \* invocations of process()
MaxTime == 2        \* clock values
MaxEdits == 1       \* files touched or deleted between runs

\* ---------------------------------------------------------------- helpers
SeqsUpTo(S, n) == UNION {[1..k -> S] : k \in 0..n}

RECURSIVE SumSeq(_)
SumSeq(s) == IF s = <<>> THEN 0 ELSE Head(s) + SumSeq(Tail(s))

RECURSIVE Flatten(_)
Flatten(ss) == IF ss = <<>> THEN <<>> ELSE Head(ss) \o Flatten(Tail(ss))

Range(s) == {s[i] : i \in 1..Len(s)}

Max(S) == CHOOSE x \in S : \A y \in S : y <= x
Min(S) == CHOOSE x \in S : \A y \in S : x <= y

\* ------------------------------------------------------------- the inputs
\* Class names of map objects; "" is the class of a classless object.
Classes == {"", "Enemy", "Npc"}

\* Python's order on str, restricted to Classes: "" < "Enemy" < "Npc".
StrOrd == [c \in Classes |-> CASE c = "" -> 0 [] c = "Enemy" -> 1 [] c = "Npc" -> 2]

\* The objects a layer of the map document may hold: class and symbolic name
\* (id), "None" for an object without a name.
ObjKinds ==
    { [cls |-> "", id |-> "None"],
      [cls |-> "Enemy", id |-> "boss"],
      [cls |-> "Npc", id |-> "None"] }

n_loaded(layers) == SumSeq([i \in 1..Len(layers) |-> Len(layers[i])])

\* The sequences of k layers that hold at most n objects together.
RECURSIVE LayersOf(_, _)
LayersOf(k, n) ==
    IF k = 0 THEN {<<>>}
    ELSE UNION {{<<first>> \o rest : rest \in LayersOf(k - 1, n - Len(first))} :
                first \in SeqsUpTo(ObjKinds, n)}

\* The object layers of a map document, in descriptor["objects"] order.
ObjectLayers == UNION {LayersOf(k, MaxObjs) : k \in 0..MaxLayers}

\* Tile references, and the tile layers of a map document.
TileRefs == {0, 1}
TileLayers == SeqsUpTo(SeqsUpTo(TileRefs, MaxTiles), 1)

\* Map heights in tiles whose pixel heights lie below, on and above the
\* multiples of the background block size.
CanvasHeights == {1, 31, 32, 33, 64, 65}

\* A map document with its companion descriptor: the object layers, the map
\* size in tiles, the tile size in pixels, the tile layers and the number of
\* graphics layers.
PlainMap ==
    [objects |-> <<>>, width |-> 1, height |-> 1, tilewidth |-> 8, tileheight |-> 8,
     tiles |-> <<>>, graphics |-> 1]

\* The maps of a batch: one without objects, one with two objects.
EmptyMap == PlainMap
TwoObjectMap ==
    [PlainMap EXCEPT !.objects = << <<[cls |-> "Enemy", id |-> "boss"],
                                      [cls |-> "", id |-> "None"]>> >>]

\* The batches: the two maps in turn, either of them first.
Batches ==
    {[m \in 1..NMaps |-> IF (m + k) % 2 = 0 THEN TwoObjectMap ELSE EmptyMap] : k \in {0, 1}}

InputFiles == {"tmx", "json", "tsx"}
OutputFiles == {"bmp", "bmp_json", "header", "source"}

\* --------------------------------------------------------------- variables
VARIABLES
    pc,               \* position of process(): "idle" between invocations
    cur,              \* the map process() is at, counted from 1
    runs,             \* invocations of process() so far
    now,              \* the clock that stamps file modification times
    edits,            \* files touched or deleted so far
    maps,             \* the map documents of the batch
    inputs,           \* mtime of each map's input files
    outputs,          \* mtime of each map's output files, 0 for a missing file
    written,          \* the <<map, output>> pairs written by the current run
    fresh,            \* maps fully written by the last run and not edited since
    dirs,             \* whether the build directories exist
    _next_id_value,   \* MapObject._next_id_value, the process-wide id counter
    tmx,              \* TMXConverter._tmx: the map document being converted
    _objects,         \* TMXConverter._objects: one class->objects dict per layer
    image,            \* the canvas regular_bg_image made last
    descriptor,       \* the descriptor regular_bg_descriptor made last
    header,           \* what cpp_header emitted last: the two enumerations
    source,           \* what cpp_source emitted last: the tables and their sizes
    call              \* the last call of an emitted accessor and its outcome

fileVars == <<maps, inputs, outputs, written, fresh, dirs, edits>>
convVars == <<_next_id_value, tmx, _objects, image, descriptor, header, source>>
vars == <<pc, cur, runs, now, fileVars, convVars, call>>

\* ------------------------------------------------- Python dict (ordered)
\* A dict is the sequence of its items in insertion order.
dict_has(d, k) == \E i \in 1..Len(d) : d[i].key = k
dict_get(d, k) == d[CHOOSE i \in 1..Len(d) : d[i].key = k].val
dict_keys(d) == [i \in 1..Len(d) |-> d[i].key]

\* d.setdefault(k, []).append(v): a new key goes last, an old key keeps its place.
dict_append(d, k, v) ==
    IF dict_has(d, k)
    THEN [i \in 1..Len(d) |-> IF d[i].key = k
                              THEN [key |-> k, val |-> Append(d[i].val, v)]
                              ELSE d[i]]
    ELSE Append(d, [key |-> k, val |-> <<v>>])

\* sorted(S) for a set of class names.
RECURSIVE sorted(_)
sorted(S) ==
    IF S = {} THEN <<>>
    ELSE LET m == CHOOSE x \in S : \A y \in S : StrOrd[x] <= StrOrd[y]
         IN  <<m>> \o sorted(S \ {m})

\* --------------------------------------------- Object Catalog Builder (tmx)
\* One scan of a layer's objects, each appended to the list keyed by its
\* class; `pos` is the object's place in the layer, kept to tell objects apart.
RECURSIVE catalog(_, _, _)
catalog(layer, i, d) ==
    IF i > Len(layer) THEN d
    ELSE catalog(layer, i + 1,
                 dict_append(d, layer[i].cls,
                             [cls |-> layer[i].cls, id |-> layer[i].id, pos |-> i]))

\* Number of objects of the layer that come before object `o` in the layer's
\* flatten order: class ordinal first, occurrence within the class second.
flatten_rank(layer, o) ==
    Cardinality({j \in 1..Len(layer) :
        \/ StrOrd[layer[j].cls] < StrOrd[o.cls]
        \/ layer[j].cls = o.cls /\ j < o.pos})

\* TMX.objects(layer_path): the layer's catalog, each object given its
\* id_value from the counter, in flatten order, starting at `start`.  `l` is
\* the layer's place in the descriptor; layer and layer_pos name the object
\* of the map document the entry was built from.
tmx_objects(layer, l, start) ==
    LET d == catalog(layer, 1, <<>>)
    IN  [i \in 1..Len(d) |->
            [key |-> d[i].key,
             val |-> [j \in 1..Len(d[i].val) |->
                        [cls |-> d[i].val[j].cls,
                         id |-> d[i].val[j].id,
                         layer |-> l,
                         layer_pos |-> d[i].val[j].pos,
                         id_value |-> start + flatten_rank(layer, d[i].val[j])]]]]

\* ------------------------------------------------------------ TMXConverter
\* __init__: self._objects = one TMX.objects(layer_path) per descriptor
\* layer, in order; every object built takes the next value of the counter.
RECURSIVE load_layers(_, _, _)
load_layers(layers, l, start) ==
    IF l > Len(layers) THEN <<>>
    ELSE <<tmx_objects(layers[l], l, start)>>
         \o load_layers(layers, l + 1, start + Len(layers[l]))

\* _object_classes: sorted(set(keys of every layer's dict)).
_object_classes(objs) ==
    sorted(UNION {Range(dict_keys(objs[l])) : l \in 1..Len(objs)})

\* _object_classes_enum: "name=ordinal" for enumerate(_object_classes), with
\* the first entry sliced off ([1:]); ordinals count from 0.
_object_classes_enum(objs) ==
    LET cs == _object_classes(objs)
        all == [i \in 1..Len(cs) |-> [name |-> cs[i], value |-> i - 1]]
    IN  SubSeq(all, 2, Len(all))

\* The objects of one layer as dict.items() yields them: key by key in
\* insertion order, each key's list in order.
layer_items(d) == Flatten([i \in 1..Len(d) |-> d[i].val])

\* _all_objects: layer by layer, items() by items(), object by object.
_all_objects(objs) == Flatten([l \in 1..Len(objs) |-> layer_items(objs[l])])

\* _object_ids_enum: "id=id_value" for every object of _all_objects with an id.
_object_ids_enum(objs) ==
    LET all == _all_objects(objs)
    IN  SelectSeq([i \in 1..Len(all) |-> [name |-> all[i].id, value |-> all[i].id_value]],
                  LAMBDA e : e.name # "None")

\* _object_spans: for each layer, for each class of _object_classes, the pair
\* (index, length), the running index advanced by each length.
class_len(d, c) == IF dict_has(d, c) THEN Len(dict_get(d, c)) ELSE 0

\* layer_spans with line 92 (index = index + length) left out.
layer_spans_no_advance(d, cs, index) ==
    [i \in 1..Len(cs) |-> [index |-> index, length |-> class_len(d, cs[i])]]

RECURSIVE layer_spans(_, _, _)
layer_spans(d, cs, index) ==
    IF cs = <<>> THEN <<>>
    ELSE <<[index |-> index, length |-> class_len(d, Head(cs))]>>
         \o layer_spans(d, Tail(cs), index + class_len(d, Head(cs)))

RECURSIVE spans_from(_, _, _)
spans_from(objs, cs, index) ==
    IF objs = <<>> THEN <<>>
    ELSE LET row == layer_spans(Head(objs), cs, index)
             used == SumSeq([i \in 1..Len(row) |-> row[i].length])
         IN  <<row>> \o spans_from(Tail(objs), cs, index + used)

_object_spans(objs) == spans_from(objs, _object_classes(objs), 0)

\* bg_size: a size rounded up to the next multiple of 256.
BlockSize == 256
bg_size(size) == IF size % BlockSize = 0 THEN size ELSE (size \div BlockSize + 1) * BlockSize

\* TMX.dimensions_in_pixels / dimensions_in_tiles of a map document.
dimensions_in_pixels(doc) == <<doc.width * doc.tilewidth, doc.height * doc.tileheight>>
dimensions_in_tiles(doc) == <<doc.width, doc.height>>

\* regular_bg_image: the canvas of the image and the vertical offset at which
\* each graphics layer is composed onto it.
regular_bg_image(doc) ==
    LET bg_width == bg_size(dimensions_in_pixels(doc)[1])
        bg_height == bg_size(dimensions_in_pixels(doc)[2])
        n_layers == doc.graphics
    IN  [made |-> TRUE,
         width |-> bg_width,
         height |-> bg_height * n_layers,
         offsets |-> [i \in 1..n_layers |-> bg_height * (i - 1)]]

\* regular_bg_descriptor with the height multiplied by the number of layers.
regular_bg_descriptor_stacked(doc) ==
    [made |-> TRUE, type |-> "regular_bg", bpp_mode |-> "bpp_4_auto",
     height |-> bg_size(dimensions_in_pixels(doc)[2]) * doc.graphics]

\* regular_bg_descriptor: type, bpp_mode and height of the background.
regular_bg_descriptor(doc) ==
    LET bg_height == bg_size(dimensions_in_pixels(doc)[2])
    IN  [made |-> TRUE, type |-> "regular_bg", bpp_mode |-> "bpp_4_auto",
         height |-> bg_height]

\* cpp_header: the object_class and object_id enumerations.
cpp_header(objs) ==
    [made |-> TRUE,
     object_class |-> _object_classes_enum(objs),
     object_id |-> _object_ids_enum(objs)]

\* tiles_to_array_literal: the rows tiles[i:i + width] for i in
\* range(0, len(tiles), width); the last slice stops at the end of the list.
tiles_to_array_literal(tiles, width) ==
    LET n_rows == (Len(tiles) + width - 1) \div width
        stop(r) == IF r * width < Len(tiles) THEN r * width ELSE Len(tiles)
    IN  [r \in 1..n_rows |-> SubSeq(tiles, (r - 1) * width + 1, stop(r))]

\* The dummy element of an otherwise empty _objects table (line 281).
Placeholder == [cls |-> "", id |-> "None", layer |-> 0, layer_pos |-> 0, id_value |-> 0]

\* cpp_source: the _objects, _objects_spans and _tiles tables and the sizes
\* the accessors assert against.
cpp_source(doc, objs) ==
    LET flattened_objects == _all_objects(objs)
        width_in_tiles == dimensions_in_tiles(doc)[1]
        height_in_tiles == dimensions_in_tiles(doc)[2]
    IN  [made |-> TRUE,
         _objects |-> flattened_objects,
         cpp_objects |-> IF Len(flattened_objects) > 0
                         THEN flattened_objects
                         ELSE <<Placeholder>>,
         _objects_spans |-> _object_spans(objs),
         n_objects |-> Len(flattened_objects),
         n_objects_layers |-> Len(doc.objects),
         n_objects_classes |-> Len(_object_classes(objs)),
         _tiles |-> [l \in 1..Len(doc.tiles) |->
                        tiles_to_array_literal(doc.tiles[l], width_in_tiles)],
         n_tiles_layers |-> Len(doc.tiles),
         size |-> width_in_tiles * height_in_tiles]

\* ------------------------------------------------------------------ process
Unmade == [made |-> FALSE]
NoCall == [fn |-> "none"]

\* The files of map m: os.path.getmtime(f) if os.path.isfile(f) else 0.
input_mtime(m) == Max({inputs[m][f] : f \in InputFiles})
output_mtime(m) == Min({outputs[m][o] : o \in OutputFiles})

write(m, o) ==
    /\ outputs' = [outputs EXCEPT ![m][o] = now]
    /\ written' = written \cup {<<m, o>>}

\* process(maps_dirs, build_dir) is invoked.
process_start ==
    /\ pc = "idle"
    /\ runs < MaxRuns
    /\ runs' = runs + 1
    /\ cur' = 1
    /\ written' = {}
    /\ pc' = "loop"
    /\ UNCHANGED <<now, maps, inputs, outputs, fresh, dirs, edits, convVars, call>>

\* process_next_map with line 358 left out.
process_next_map_no_reset ==
    /\ pc = "loop"
    /\ cur <= Len(maps)
    /\ dirs' = TRUE
    /\ pc' = "construct"
    /\ UNCHANGED <<cur, runs, now, maps, inputs, outputs, written, fresh, edits,
                   convVars, call>>

\* Lines 343-358: the next map file; the build directories are made and
\* MapObject._next_id_value = 0.
process_next_map ==
    /\ pc = "loop"
    /\ cur <= Len(maps)
    /\ dirs' = TRUE
    /\ _next_id_value' = 0
    /\ pc' = "construct"
    /\ UNCHANGED <<cur, runs, now, maps, inputs, outputs, written, fresh, edits,
                   tmx, _objects, image, descriptor, header, source, call>>

\* Lines 360-362: converter = TMXConverter(tmx_filename); its __init__ loads
\* every object layer, each object taking the next value of the counter.
process_construct ==
    /\ pc = "construct"
    /\ tmx' = maps[cur]
    /\ _objects' = load_layers(maps[cur].objects, 1, _next_id_value)
    /\ _next_id_value' = _next_id_value + n_loaded(maps[cur].objects)
    /\ pc' = "check"
    /\ UNCHANGED <<cur, runs, now, fileVars, image, descriptor, header, source, call>>

\* process_check that also skips a map whose oldest output is as old as its
\* newest input.
process_check_or_equal ==
    /\ pc = "check"
    /\ IF input_mtime(cur) <= output_mtime(cur)
       THEN /\ cur' = cur + 1
            /\ pc' = "loop"
       ELSE /\ cur' = cur
            /\ pc' = "image"
    /\ UNCHANGED <<runs, now, fileVars, convVars, call>>

\* Lines 370-374: if input_mtime < output_mtime: continue.
process_check ==
    /\ pc = "check"
    /\ IF input_mtime(cur) < output_mtime(cur)
       THEN /\ cur' = cur + 1
            /\ pc' = "loop"
       ELSE /\ cur' = cur
            /\ pc' = "image"
    /\ UNCHANGED <<runs, now, fileVars, convVars, call>>

\* Lines 376-378: the image is made and saved.
process_image ==
    /\ pc = "image"
    /\ image' = regular_bg_image(tmx)
    /\ write(cur, "bmp")
    /\ pc' = "descriptor"
    /\ UNCHANGED <<cur, runs, now, maps, inputs, fresh, dirs, edits,
                   _next_id_value, tmx, _objects, descriptor, header, source, call>>

\* Lines 380-384: the graphics descriptor is made and written.
process_descriptor ==
    /\ pc = "descriptor"
    /\ descriptor' = regular_bg_descriptor(tmx)
    /\ write(cur, "bmp_json")
    /\ pc' = "header"
    /\ UNCHANGED <<cur, runs, now, maps, inputs, fresh, dirs, edits,
                   _next_id_value, tmx, _objects, image, header, source, call>>

\* Lines 386-390: the C++ header is made and written.
process_header ==
    /\ pc = "header"
    /\ header' = cpp_header(_objects)
    /\ write(cur, "header")
    /\ pc' = "source"
    /\ UNCHANGED <<cur, runs, now, maps, inputs, fresh, dirs, edits,
                   _next_id_value, tmx, _objects, image, descriptor, source, call>>

\* Lines 392-396: the C++ source is made and written; on to the next map.
process_source ==
    /\ pc = "source"
    /\ source' = cpp_source(tmx, _objects)
    /\ write(cur, "source")
    /\ cur' = cur + 1
    /\ pc' = "loop"
    /\ UNCHANGED <<runs, now, maps, inputs, fresh, dirs, edits,
                   _next_id_value, tmx, _objects, image, descriptor, header, call>>

\* The loop of process() is through: the invocation returns.
process_end ==
    /\ pc = "loop"
    /\ cur > Len(maps)
    /\ pc' = "idle"
    /\ fresh' = {m \in 1..Len(maps) : \A o \in OutputFiles : <<m, o>> \in written}
    /\ UNCHANGED <<cur, runs, now, maps, inputs, outputs, written, dirs, edits,
                   convVars, call>>

NextProcess ==
    \/ process_start
    \/ process_next_map
    \/ process_construct
    \/ process_check
    \/ process_image
    \/ process_descriptor
    \/ process_header
    \/ process_source
    \/ process_end

\* ---------------------------------------------------------- the environment
\* Time passes.
Tick ==
    /\ now < MaxTime
    /\ now' = now + 1
    /\ UNCHANGED <<pc, cur, runs, fileVars, convVars, call>>

\* Between two invocations an input file of map m is saved again.
Touch(m, f) ==
    /\ pc = "idle"
    /\ runs > 0
    /\ edits < MaxEdits
    /\ edits' = edits + 1
    /\ inputs' = [inputs EXCEPT ![m][f] = now]
    /\ fresh' = fresh \ {m}
    /\ UNCHANGED <<pc, cur, runs, now, maps, outputs, written, dirs, convVars, call>>

\* Between two invocations an output file of map m is deleted.
Delete(m, o) ==
    /\ pc = "idle"
    /\ runs > 0
    /\ edits < MaxEdits
    /\ outputs[m][o] # 0
    /\ edits' = edits + 1
    /\ outputs' = [outputs EXCEPT ![m][o] = 0]
    /\ fresh' = fresh \ {m}
    /\ UNCHANGED <<pc, cur, runs, now, maps, inputs, written, dirs, convVars, call>>

\* ---------------------------------------------------- the emitted accessors
\* The integers a caller may pass to an accessor.
CallArgs == -1..MaxObjs

\* What a read outside a table may yield: the program may crash, or go on
\* with whatever lies there.
WildObjects == Range(source.cpp_objects) \cup {Placeholder}
WildSpans == {[index |-> i, length |-> n] : i \in 0..1, n \in 0..(source.n_objects + 1)}

Asserted(fn, args) == [fn |-> fn, args |-> args, outcome |-> "assert"]
Returned(fn, args, r) == [fn |-> fn, args |-> args, outcome |-> "return", oob |-> FALSE, result |-> r]
Wild(fn, args, rs) ==
    \/ call' = [fn |-> fn, args |-> args, outcome |-> "crash", oob |-> TRUE]
    \/ \E r \in rs :
          call' = [fn |-> fn, args |-> args, outcome |-> "return", oob |-> TRUE, result |-> r]

\* _objects_spans[l][c], rows and columns counted from 0, is inside the table.
InSpans(l, c) ==
    /\ l \in 0..(Len(source._objects_spans) - 1)
    /\ c \in 0..(source.n_objects_classes - 1)

\* object(id): BN_ASSERT(id < n_objects); return _objects[id].
object(id) ==
    /\ pc = "idle"
    /\ source.made
    /\ IF ~(id < source.n_objects)
       THEN call' = Asserted("object", <<id>>)
       ELSE IF id \in 0..(Len(source.cpp_objects) - 1)
            THEN call' = Returned("object", <<id>>, source.cpp_objects[id + 1])
            ELSE Wild("object", <<id>>, WildObjects)
    /\ UNCHANGED <<pc, cur, runs, now, fileVars, convVars>>

\* objects(objects_layer_index): BN_ASSERT(objects_layer_index < n_objects_layers);
\* return span(&_objects[_objects_spans[layer][0].index], _objects_spans[layer][0].length).
objects_layer(l) ==
    /\ pc = "idle"
    /\ source.made
    /\ IF ~(l < source.n_objects_layers)
       THEN call' = Asserted("objects_layer", <<l>>)
       ELSE IF InSpans(l, 0)
            THEN call' = Returned("objects_layer", <<l>>, source._objects_spans[l + 1][1])
            ELSE Wild("objects_layer", <<l>>, WildSpans)
    /\ UNCHANGED <<pc, cur, runs, now, fileVars, convVars>>

\* objects(objects_layer_index, objects_class): both arguments asserted to be
\* below their counts; return the span of _objects_spans[layer][class].
objects_layer_class(l, c) ==
    /\ pc = "idle"
    /\ source.made
    /\ IF ~(l < source.n_objects_layers) \/ ~(c < source.n_objects_classes)
       THEN call' = Asserted("objects_layer_class", <<l, c>>)
       ELSE IF InSpans(l, c)
            THEN call' = Returned("objects_layer_class", <<l, c>>,
                                  source._objects_spans[l + 1][c + 1])
            ELSE Wild("objects_layer_class", <<l, c>>, WildSpans)
    /\ UNCHANGED <<pc, cur, runs, now, fileVars, convVars>>

\* tiles(tiles_layer_index): BN_ASSERT(tiles_layer_index < n_tiles_layers);
\* return span(_tiles[layer], size).
tiles(l) ==
    /\ pc = "idle"
    /\ source.made
    /\ IF ~(l < source.n_tiles_layers)
       THEN call' = Asserted("tiles", <<l>>)
       ELSE IF l \in 0..(Len(source._tiles) - 1)
            THEN call' = Returned("tiles", <<l>>, [layer |-> l, length |-> source.size])
            ELSE Wild("tiles", <<l>>, {[layer |-> l, length |-> source.size]})
    /\ UNCHANGED <<pc, cur, runs, now, fileVars, convVars>>

\* --------------------------------------------------------- specifications
\* A fresh build directory and a batch of the given maps, never run before.
InitWith(batch) ==
    /\ pc = "idle"
    /\ cur = 1
    /\ runs = 0
    /\ now = 1
    /\ edits = 0
    /\ maps = batch
    /\ inputs = [m \in 1..Len(batch) |-> [f \in InputFiles |-> 1]]
    /\ outputs = [m \in 1..Len(batch) |-> [o \in OutputFiles |-> 0]]
    /\ written = {}
    /\ fresh = {}
    /\ dirs = FALSE
    /\ _next_id_value = 0
    /\ tmx = PlainMap
    /\ _objects = <<>>
    /\ image = Unmade
    /\ descriptor = Unmade
    /\ header = Unmade
    /\ source = Unmade
    /\ call = NoCall

\* One map, any object layers within the bounds.
InitEmit == \E o \in ObjectLayers : InitWith(<<[PlainMap EXCEPT !.objects = o]>>)

SpecEmit == InitEmit /\ [][NextProcess]_vars

\* The same, followed by any calls of the emitted object accessors.
NextAccess ==
    \/ NextProcess
    \/ \E id \in CallArgs : object(id)
    \/ \E l \in CallArgs : objects_layer(l)
    \/ \E l, c \in CallArgs : objects_layer_class(l, c)

SpecAccess == InitEmit /\ [][NextAccess]_vars

\* One map, any size and tile layers within the bounds, and calls of tiles().
InitTiles ==
    \E w \in 1..MaxWidth, h \in 1..MaxHeight, t \in TileLayers :
        InitWith(<<[PlainMap EXCEPT !.width = w, !.height = h, !.tiles = t]>>)

NextTiles ==
    \/ NextProcess
    \/ \E l \in CallArgs : tiles(l)

SpecTiles == InitTiles /\ [][NextTiles]_vars

\* One map, any height and number of graphics layers within the bounds.
InitCanvas ==
    \E h \in CanvasHeights, g \in 0..MaxGraphics :
        InitWith(<<[PlainMap EXCEPT !.height = h, !.graphics = g]>>)

SpecCanvas == InitCanvas /\ [][NextProcess]_vars

\* A batch of maps run again and again while time passes and files are
\* touched and deleted between the runs.
InitBatch == \E batch \in Batches : InitWith(batch)

NextBatch ==
    \/ NextProcess
    \/ Tick
    \/ \E m \in 1..Len(maps), f \in InputFiles : Touch(m, f)
    \/ \E m \in 1..Len(maps), o \in OutputFiles : Delete(m, o)

SpecBatch == InitBatch /\ [][NextBatch]_vars

\* ================================================================== claims
\* The place of a table entry in the flatten order of the map document:
\* layer, then class ordinal, then occurrence within the layer.
Before(a, b) ==
    \/ a.layer < b.layer
    \/ a.layer = b.layer /\ StrOrd[a.cls] < StrOrd[b.cls]
    \/ a.layer = b.layer /\ a.cls = b.cls /\ a.layer_pos < b.layer_pos

\* C1: the emitted _objects table is ordered by layer, then by class ordinal
\* (classless first), then by occurrence within the class, for every map.
C1_FlattenOrder ==
    source.made =>
        \A i, j \in 1..Len(source._objects) :
            i < j => Before(source._objects[i], source._objects[j])

\* C2: the object at index i of the emitted _objects table has id_value i
\* (0, 1, ..., N-1), and every entry name=id_value of the object_id
\* enumeration addresses the object of that name.
C2_IdIsIndex ==
    (source.made /\ header.made) =>
        /\ \A i \in 1..Len(source._objects) : source._objects[i].id_value = i - 1
        /\ \A k \in 1..Len(header.object_id) :
              LET e == header.object_id[k]
              IN  /\ e.value + 1 \in 1..Len(source._objects)
                  /\ source._objects[e.value + 1].id = e.name

\* The indices of the emitted _objects table that hold objects of layer l.
LayerSlots(l) == {i \in 1..Len(source._objects) : source._objects[i].layer = l}

SpanEnd(sp) == sp.index + sp.length
RowLength(row) == SumSeq([c \in 1..Len(row) |-> row[c].length])

\* C3: each row of the span table is contiguous across class ordinals, starts
\* where the previous layer's row ends (0 for the first), has the number of
\* objects of each class as lengths, and covers exactly the layer's subrange
\* of the flattened sequence; the last span ends at the number of objects.
C3_SpansCoverLayer ==
    source.made =>
        LET sp == source._objects_spans
            layers == tmx.objects
            cs == _object_classes(_objects)
            first(l) == IF l = 1 THEN 0
                        ELSE SumSeq([k \in 1..(l - 1) |-> Len(layers[k])])
        IN  /\ Len(sp) = Len(layers)
            /\ \A l \in 1..Len(sp) :
                  /\ Len(sp[l]) = Len(cs)
                  /\ \A c \in 1..Len(cs) :
                        /\ sp[l][c].index = (IF c = 1 THEN first(l) ELSE SpanEnd(sp[l][c - 1]))
                        /\ sp[l][c].length =
                              Cardinality({p \in 1..Len(layers[l]) : layers[l][p].cls = cs[c]})
                  /\ LayerSlots(l) = {i + 1 : i \in first(l)..(first(l) + RowLength(sp[l]) - 1)}
                  /\ RowLength(sp[l]) = Len(layers[l])
            /\ (Len(sp) > 0 /\ Len(cs) > 0) =>
                  SpanEnd(sp[Len(sp)][Len(cs)]) = source.n_objects

\* A converted map with two layers, the second holding objects of two
\* classes met in other than sorted order, its row starting after the first
\* layer's objects.
C3_Witness ==
    /\ source.made
    /\ Len(tmx.objects) = 2
    /\ Len(tmx.objects[1]) > 0
    /\ Len(tmx.objects[2]) = 2
    /\ StrOrd[tmx.objects[2][1].cls] > StrOrd[tmx.objects[2][2].cls]
    /\ source._objects_spans[2][1].index = Len(tmx.objects[1])
    /\ source._objects_spans[2][2].index > source._objects_spans[2][1].index

\* C4: objects(L) for a valid layer L returns the whole subrange of the layer:
\* it starts at the layer's class-ordinal-0 span and its length is the sum of
\* the lengths of all the class spans of the layer.
C4_ObjectsLayerWhole ==
    (call.fn = "objects_layer" /\ InSpans(call.args[1], 0)) =>
        LET row == source._objects_spans[call.args[1] + 1]
        IN  /\ call.outcome = "return"
            /\ call.result = [index |-> row[1].index, length |-> RowLength(row)]

\* The classes other than "" that objects of the map document have.
RealClasses ==
    UNION {{tmx.objects[l][p].cls : p \in 1..Len(tmx.objects[l])} :
           l \in 1..Len(tmx.objects)} \ {""}

\* C5: a map's sorted class set has "" at ordinal 0, and the object_class
\* enumeration holds exactly the real classes of the map, each with its
\* ordinal as value, whether or not the map has a classless object.  (A map
\* without objects has no class and no ordinal 0 to speak of.)
C5_ClassEnum ==
    header.made =>
        LET cs == _object_classes(_objects)
        IN  /\ cs # <<>> => cs[1] = ""
            /\ {header.object_class[k].name : k \in 1..Len(header.object_class)} = RealClasses
            /\ \A k \in 1..Len(header.object_class) :
                  /\ header.object_class[k].value \in 1..(Len(cs) - 1)
                  /\ cs[header.object_class[k].value + 1] = header.object_class[k].name

\* C6: in a batch the id counter is 0 when a map's converter is about to be
\* built, whatever the earlier maps did, and the id_values of the objects the
\* converter loads are 0 .. n-1.
C6_CounterReset ==
    /\ pc = "construct" => _next_id_value = 0
    /\ pc = "check" =>
          {o.id_value : o \in Range(_all_objects(_objects))}
              = 0..(n_loaded(maps[cur].objects) - 1)

\* The second run is about to build the converter of the second map, after
\* the first map, which has objects, was skipped as up to date.
C6_Witness ==
    /\ pc = "construct"
    /\ runs = 2
    /\ cur = 2
    /\ n_loaded(maps[1].objects) > 0
    /\ \A o \in OutputFiles : <<1, o>> \notin written

\* C7: a tile layer whose length is not width x height fails the conversion;
\* a layer of the right length is emitted row-major, row i holding the tile
\* references i*width .. (i+1)*width - 1.
C7_TileLength ==
    source.made =>
        \A l \in 1..Len(tmx.tiles) :
            /\ Len(tmx.tiles[l]) = tmx.width * tmx.height
            /\ Len(source._tiles[l]) = tmx.height
            /\ \A r \in 1..tmx.height :
                  source._tiles[l][r] =
                      [k \in 1..tmx.width |-> tmx.tiles[l][(r - 1) * tmx.width + k]]

\* process() is leaving the staleness check of map cur.
Checked == pc = "check" /\ pc' # "check"

\* Some output of map m is missing or older than some input of m.
Older(m) ==
    \E o \in OutputFiles :
        \/ outputs[m][o] = 0
        \/ \E f \in InputFiles : outputs[m][o] < inputs[m][f]

\* Some output of map m is missing or not newer than some input of m.
NotNewer(m) ==
    \E o \in OutputFiles :
        \/ outputs[m][o] = 0
        \/ \E f \in InputFiles : outputs[m][o] <= inputs[m][f]

\* Of every map the run is through with, all four outputs were written by
\* the run or none was.
AllOrNothing ==
    \A m \in 1..Len(maps) :
        (pc = "idle" \/ cur > m) =>
            \/ \A o \in OutputFiles : <<m, o>> \in written
            \/ \A o \in OutputFiles : <<m, o>> \notin written

C9_Original ==
    (descriptor.made /\ image.made /\ tmx.graphics > 0) =>
        /\ descriptor.height = bg_size(tmx.height * tmx.tileheight) * tmx.graphics
        /\ descriptor.height = image.height

\* C9 as amended: the height of the descriptor is the rounded height of one
\* graphics layer, the least multiple of 256 that holds the map's pixel
\* height; the image canvas is that height x number of graphics layers, and
\* graphics layer i (from 0) is composed at offset i x that height.
C9_LayerHeight ==
    (descriptor.made /\ image.made) =>
        LET src_height == tmx.height * tmx.tileheight
            r == descriptor.height
        IN  /\ r % 256 = 0
            /\ r >= src_height
            /\ r - src_height < 256
            /\ image.height = r * tmx.graphics
            /\ Len(image.offsets) = tmx.graphics
            /\ \A i \in 1..tmx.graphics : image.offsets[i] = (i - 1) * r

\* Two graphics layers that each round to 512: the descriptor says 512, the
\* canvas is 1024 high and the second layer is composed at 512.
C9_Witness ==
    /\ descriptor.made
    /\ image.made
    /\ tmx.graphics = 2
    /\ descriptor.height = 512
    /\ image.height = 1024
    /\ image.offsets = <<0, 512>>

\* The arguments of the call are all within [0, count) of what they index.
ArgsInRange ==
    CASE call.fn = "object" -> call.args[1] \in 0..(source.n_objects - 1)
      [] call.fn = "objects_layer" ->
            /\ call.args[1] \in 0..(source.n_objects_layers - 1)
            /\ source.n_objects_classes > 0
      [] call.fn = "objects_layer_class" ->
            /\ call.args[1] \in 0..(source.n_objects_layers - 1)
            /\ call.args[2] \in 0..(source.n_objects_classes - 1)
      [] call.fn = "tiles" -> call.args[1] \in 0..(source.n_tiles_layers - 1)

\* C10: an accessor called with an argument outside [0, count) fails its
\* assertion before any table element is read, negative arguments and empty
\* tables included; called within range it reads inside its table and a
\* returned span lies within the flattened sequence.
C10_AccessorsAbort ==
    call.fn # "none" =>
        /\ ~ArgsInRange => call.outcome = "assert"
        /\ ArgsInRange =>
              /\ call.outcome = "return"
              /\ ~call.oob
              /\ call.fn \in {"objects_layer", "objects_layer_class"} =>
                    call.result.index + call.result.length <= source.n_objects

====
